---- MODULE Spec2Model ----
(***************************************************************************)
(* siig_switch: locate the SIIG KVM switch on the USB bus, acquire it      *)
(* (open, detach kernel driver, claim interface, initialize), send the     *)
(* trigger report, and release it again.  The model follows main() of      *)
(* siig_switch.cpp statement by statement; libusb is the environment, and  *)
(* every libusb call whose result the program can observe draws its result *)
(* from a small set.                                                       *)
(***************************************************************************)
EXTENDS Integers, Sequences, FiniteSets, TLC

VARIABLES
  pc,               \* position of the single thread in main / find_device / kvm_device
  bus,              \* the attached devices at program start: [idVendor, idProduct, driver]
  refs,             \* refs[i]: references this process holds on device i
  kdriver,          \* kdriver[i]: a kernel driver is bound to the target interface of device i
  ctx,              \* main's libusb_context*: "null", "live" or "exited"
  devices,          \* find_device's vector returned by find_devices (indices into bus)
  device,           \* kvm_device::device / find_device's local device (0 = nullptr)
  handle,           \* kvm_device::handle: "null", "open" or "closed"
  interface_number, \* kvm_device::interface_number
  detached_kernel,  \* kvm_device::detached_kernel
  claimed,          \* the target interface is claimed through handle
  config,           \* find_device's config descriptor: state "none", "held" or "freed",
                    \* bNumInterfaces, and num_altsetting of interface[target_interface]
  kvm,              \* main's unique_ptr<kvm_device>: "null", "live" or "destroyed"
  rc,               \* main's rc
  exit_code,        \* value returned by main (-1 while main has not returned)
  trigger_rc,       \* the values trigger() has returned to main, in order
  requests,         \* the send_request calls made: [data, reported, result]
  calls             \* the libusb calls made so far, in order: [op, ok]

vars == << pc, bus, refs, kdriver, ctx, devices, device, handle, interface_number,
           detached_kernel, claimed, config, kvm, rc, exit_code, trigger_rc,
           requests, calls >>

----------------------------------------------------------------------------
(* Bounds of the model *)

\* at most this many devices are attached to the bus
MaxDevices == 3

\* libusb_control_transfer reports a result in -1 .. MaxReported
MaxReported == 6

----------------------------------------------------------------------------
(* Program constants *)

vendor_id == 8449       \* 0x2101
product_id == 5126      \* 0x1406
target_interface == 1
expected_interfaces == 2
expected_altsettings == 1

\* initialize(): { 0x03, 0x00, 0x00, 0x00, 0x00 }
initialize_data == << 3, 0, 0, 0, 0 >>

\* trigger(): { 0x03, 0x5c, 0x04, 0x00, 0x00 }
trigger_data == << 3, 92, 4, 0, 0 >>

----------------------------------------------------------------------------
(* The environment: what libusb can answer *)

\* identifiers a device descriptor may carry: the KVM's and a neighbour of each
VendorIds == { vendor_id, vendor_id + 1 }
ProductIds == { product_id, product_id + 1 }

DeviceRecords == [ idVendor : VendorIds, idProduct : ProductIds, driver : BOOLEAN ]

Buses == UNION { [ 1..n -> DeviceRecords ] : n \in 0..MaxDevices }

\* return codes of the int-returning libusb calls: success or a (negative) error
StatusCodes == { 0, -1 }

\* results of libusb_control_transfer: an error or a byte count
TransferResults == (-1)..MaxReported

\* shapes of an active configuration descriptor
InterfaceCounts == 1..3
AltsettingCounts == 0..2
InterfaceNumbers == { 1, 2 }

ConfigDescriptor(state, bNumInterfaces, num_altsetting) ==
  [ state |-> state, bNumInterfaces |-> bNumInterfaces, num_altsetting |-> num_altsetting ]

\* libusb_config_descriptor* config before libusb_get_active_config_descriptor set it
NoConfig == ConfigDescriptor("none", 0, 0)

Call(op, ok) == [ op |-> op, ok |-> ok ]

\* number of calls of op recorded in a call sequence s, with the given outcome
RECURSIVE CountCalls(_, _, _)
CountCalls(s, op, ok) ==
  IF s = << >> THEN 0
  ELSE (IF Head(s) = Call(op, ok) THEN 1 ELSE 0) + CountCalls(Tail(s), op, ok)

Invoked(op) == CountCalls(calls, op, TRUE) + CountCalls(calls, op, FALSE)

----------------------------------------------------------------------------
(* find_devices *)

\* the loop of find_devices over devices[from..]: indices whose descriptor matches
RECURSIVE MatchingDevices(_, _, _, _)
MatchingDevices(b, i, vid, pid) ==
  IF i > Len(b) THEN << >>
  ELSE (IF b[i].idVendor = vid /\ b[i].idProduct = pid THEN << i >> ELSE << >>)
       \o MatchingDevices(b, i + 1, vid, pid)

\* libusb_get_device_list: the list holds one reference on every device
GetDeviceList(r) == [ i \in DOMAIN r |-> r[i] + 1 ]

\* libusb_ref_device on every device of result
RECURSIVE RefDevices(_, _)
RefDevices(r, result) ==
  IF result = << >> THEN r
  ELSE RefDevices([ r EXCEPT ![Head(result)] = @ + 1 ], Tail(result))

\* libusb_free_device_list(devices, unref_devices)
FreeDeviceList(r, unref_devices) ==
  [ i \in DOMAIN r |-> IF unref_devices = 1 THEN r[i] - 1 ELSE r[i] ]

\* find_devices freeing the list with unref_devices = 0
find_devices_refs_no_unref(r, result) ==
  FreeDeviceList(RefDevices(GetDeviceList(r), result), 0)

\* reference counts after a successful find_devices returning result
find_devices_refs(r, result) ==
  FreeDeviceList(RefDevices(GetDeviceList(r), result), 1)

\* what find_devices returns when enumeration succeeds
find_devices(b, vid, pid) == MatchingDevices(b, 1, vid, pid)

----------------------------------------------------------------------------
(* kvm_device::send_request *)

\* send_request comparing with < where the code compares with != : a count
\* larger than the payload passes
send_request_accepts_long(r, length) ==
  IF r < 0 THEN r
  ELSE IF r < length THEN -1
  ELSE 0

\* the value send_request returns when libusb_control_transfer reported r
send_request(r, length) ==
  IF r < 0 THEN r
  ELSE IF r # length THEN -1
  ELSE 0

Request(data, r) == [ data |-> data, reported |-> r, result |-> send_request(r, Len(data)) ]

----------------------------------------------------------------------------
Init ==
  /\ pc = "main"
  /\ bus \in Buses
  /\ refs = [ i \in DOMAIN bus |-> 0 ]
  /\ kdriver = [ i \in DOMAIN bus |-> bus[i].driver ]
  /\ ctx = "null"
  /\ devices = << >>
  /\ device = 0
  /\ handle = "null"
  /\ interface_number = 0
  /\ detached_kernel = FALSE
  /\ claimed = FALSE
  /\ config = NoConfig
  /\ kvm = "null"
  /\ rc = 0
  /\ exit_code = -1
  /\ trigger_rc = << >>
  /\ requests = << >>
  /\ calls = << >>

\* main: libusb_init(&ctx); a failure returns 1 at once
main_init ==
  /\ pc = "main"
  /\ \E r \in StatusCodes :
       /\ calls' = Append(calls, Call("libusb_init", r = 0))
       /\ IF r # 0
          THEN /\ exit_code' = 1
               /\ pc' = "done"
               /\ ctx' = ctx
          ELSE /\ ctx' = "live"
               /\ pc' = "find_devices"
               /\ exit_code' = exit_code
  /\ UNCHANGED << bus, refs, kdriver, devices, device, handle, interface_number,
                  detached_kernel, claimed, config, kvm, rc, trigger_rc, requests >>

\* main: kvm_device::find_device(ctx) starts with find_devices(ctx, vendor_id, product_id).
\* A negative device count is thrown as an ssize_t: main's catch (int) takes it only
\* in a build where ssize_t is int, otherwise the exception is unhandled.
main_find_devices ==
  /\ pc = "find_devices"
  /\ \E r \in StatusCodes :
       IF r < 0
       THEN /\ calls' = Append(calls, Call("libusb_get_device_list", FALSE))
            /\ pc' \in { "catch", "terminated" }
            /\ UNCHANGED << refs, devices >>
       ELSE LET result == find_devices(bus, vendor_id, product_id) IN
            /\ devices' = result
            /\ refs' = find_devices_refs(refs, result)
            /\ calls' = calls \o << Call("libusb_get_device_list", TRUE) >>
                              \o [ k \in 1..Len(result) |-> Call("libusb_ref_device", TRUE) ]
                              \o << Call("libusb_free_device_list", TRUE) >>
            /\ pc' = "find_device"
  /\ UNCHANGED << bus, kdriver, ctx, device, handle, interface_number, detached_kernel,
                  claimed, config, kvm, rc, exit_code, trigger_rc, requests >>

\* find_device without the devices.size() > 1 check: the first match is taken
selected_device_first(devs) ==
  IF Len(devs) = 0 THEN 0
  ELSE devs[1]

\* find_device: the device the size checks let through (0: return nullptr)
selected_device(devs) ==
  IF Len(devs) = 0 THEN 0
  ELSE IF Len(devs) > 1 THEN 0
  ELSE devs[1]

\* find_device: devices.size() == 0, devices.size() > 1, device = devices[0]
find_device_select ==
  /\ pc = "find_device"
  /\ device' = selected_device(devices)
  /\ pc' = IF device' = 0 THEN "else" ELSE "config"
  /\ UNCHANGED << bus, refs, kdriver, ctx, devices, handle, interface_number,
                  detached_kernel, claimed, config, kvm, rc, exit_code, trigger_rc,
                  requests, calls >>

\* find_device without the num_altsetting check
topology_ok_interfaces_only(bNumInterfaces, num_altsetting) ==
  IF bNumInterfaces # expected_interfaces THEN FALSE
  ELSE TRUE

\* find_device: the two checks on the active configuration descriptor
topology_ok(bNumInterfaces, num_altsetting) ==
  IF bNumInterfaces # expected_interfaces THEN FALSE
  ELSE IF num_altsetting # expected_altsettings THEN FALSE
  ELSE TRUE

\* find_device: libusb_get_active_config_descriptor and the topology checks;
\* num_altsetting and bInterfaceNumber are those of config->interface[target_interface]
find_device_config ==
  /\ pc = "config"
  /\ \E r \in StatusCodes, bNumInterfaces \in InterfaceCounts,
        num_altsetting \in AltsettingCounts, bInterfaceNumber \in InterfaceNumbers :
       IF r # 0
       THEN /\ calls' = Append(calls, Call("libusb_get_active_config_descriptor", FALSE))
            /\ pc' = "else"
            /\ UNCHANGED << config, interface_number >>
       ELSE IF ~ topology_ok(bNumInterfaces, num_altsetting)
       THEN /\ calls' = Append(calls, Call("libusb_get_active_config_descriptor", TRUE))
            /\ config' = ConfigDescriptor("held", bNumInterfaces, num_altsetting)
            /\ pc' = "else"
            /\ UNCHANGED interface_number
       ELSE /\ calls' = calls \o << Call("libusb_get_active_config_descriptor", TRUE),
                                    Call("libusb_free_config_descriptor", TRUE) >>
            /\ config' = ConfigDescriptor("freed", bNumInterfaces, num_altsetting)
            /\ interface_number' = bInterfaceNumber
            /\ pc' = "open"
  /\ UNCHANGED << bus, refs, kdriver, ctx, devices, device, handle, detached_kernel,
                  claimed, kvm, rc, exit_code, trigger_rc, requests >>

\* libusb_unref_device(device)
UnrefDevice(r, d) == [ r EXCEPT ![d] = @ - 1 ]

\* kvm_device::kvm_device: libusb_open; a failure unrefs the device and throws rc
kvm_device_open ==
  /\ pc = "open"
  /\ \E r \in StatusCodes :
       IF r < 0
       THEN /\ calls' = calls \o << Call("libusb_open", FALSE),
                                    Call("libusb_unref_device", TRUE) >>
            /\ refs' = UnrefDevice(refs, device)
            /\ pc' = "catch"
            /\ UNCHANGED handle
       ELSE /\ calls' = Append(calls, Call("libusb_open", TRUE))
            /\ handle' = "open"
            /\ pc' = "kernel_driver_active"
            /\ UNCHANGED refs
  /\ UNCHANGED << bus, kdriver, ctx, devices, device, interface_number, detached_kernel,
                  claimed, config, kvm, rc, exit_code, trigger_rc, requests >>

\* a constructor that goes on to claim the interface when the driver query failed
kvm_device_kernel_driver_active_unchecked ==
  /\ pc = "kernel_driver_active"
  /\ \E failed \in BOOLEAN :
       /\ calls' = Append(calls, Call("libusb_kernel_driver_active", ~ failed))
       /\ pc' = IF failed THEN "claim"
                ELSE IF kdriver[device] THEN "detach"
                ELSE "claim"
  /\ UNCHANGED << bus, refs, kdriver, ctx, devices, device, handle, interface_number,
                  detached_kernel, claimed, config, kvm, rc, exit_code, trigger_rc,
                  requests >>

\* kvm_device::kvm_device: libusb_kernel_driver_active answers an error, 0 or 1
kvm_device_kernel_driver_active ==
  /\ pc = "kernel_driver_active"
  /\ \E failed \in BOOLEAN :
       /\ calls' = Append(calls, Call("libusb_kernel_driver_active", ~ failed))
       /\ pc' = IF failed THEN "fail"
                ELSE IF kdriver[device] THEN "detach"
                ELSE "claim"
  /\ UNCHANGED << bus, refs, kdriver, ctx, devices, device, handle, interface_number,
                  detached_kernel, claimed, config, kvm, rc, exit_code, trigger_rc,
                  requests >>

\* a constructor that sets detached_kernel before it looks at the result of detach
kvm_device_detach_flag_first ==
  /\ pc = "detach"
  /\ \E r \in StatusCodes :
       /\ calls' = Append(calls, Call("libusb_detach_kernel_driver", r = 0))
       /\ detached_kernel' = TRUE
       /\ IF r < 0
          THEN /\ pc' = "fail"
               /\ UNCHANGED kdriver
          ELSE /\ kdriver' = [ kdriver EXCEPT ![device] = FALSE ]
               /\ pc' = "claim"
  /\ UNCHANGED << bus, refs, ctx, devices, device, handle, interface_number, claimed,
                  config, kvm, rc, exit_code, trigger_rc, requests >>

\* kvm_device::kvm_device: libusb_detach_kernel_driver, then detached_kernel = true
kvm_device_detach ==
  /\ pc = "detach"
  /\ \E r \in StatusCodes :
       /\ calls' = Append(calls, Call("libusb_detach_kernel_driver", r = 0))
       /\ IF r < 0
          THEN /\ pc' = "fail"
               /\ UNCHANGED << kdriver, detached_kernel >>
          ELSE /\ kdriver' = [ kdriver EXCEPT ![device] = FALSE ]
               /\ detached_kernel' = TRUE
               /\ pc' = "claim"
  /\ UNCHANGED << bus, refs, ctx, devices, device, handle, interface_number, claimed,
                  config, kvm, rc, exit_code, trigger_rc, requests >>

\* a constructor that does not look at the result of libusb_claim_interface
kvm_device_claim_unchecked ==
  /\ pc = "claim"
  /\ \E r \in StatusCodes :
       /\ calls' = Append(calls, Call("libusb_claim_interface", r = 0))
       /\ claimed' = (r = 0)
       /\ pc' = "initialize"
  /\ UNCHANGED << bus, refs, kdriver, ctx, devices, device, handle, interface_number,
                  detached_kernel, config, kvm, rc, exit_code, trigger_rc, requests >>

\* kvm_device::kvm_device: libusb_claim_interface
kvm_device_claim ==
  /\ pc = "claim"
  /\ \E r \in StatusCodes :
       /\ calls' = Append(calls, Call("libusb_claim_interface", r = 0))
       /\ IF r < 0
          THEN /\ pc' = "fail"
               /\ UNCHANGED claimed
          ELSE /\ claimed' = TRUE
               /\ pc' = "initialize"
  /\ UNCHANGED << bus, refs, kdriver, ctx, devices, device, handle, interface_number,
                  detached_kernel, config, kvm, rc, exit_code, trigger_rc, requests >>

\* kvm_device::kvm_device: initialize(), which throws the negative result of
\* send_request out of the constructor; otherwise the constructor returns and
\* find_device hands the new kvm_device to main
kvm_device_initialize ==
  /\ pc = "initialize"
  /\ \E r \in TransferResults :
       /\ calls' = Append(calls, Call("libusb_control_transfer", r >= 0))
       /\ requests' = Append(requests, Request(initialize_data, r))
       /\ IF send_request(r, Len(initialize_data)) < 0
          THEN /\ pc' = "catch"
               /\ UNCHANGED kvm
          ELSE /\ kvm' = "live"
               /\ pc' = "trigger"
  /\ UNCHANGED << bus, refs, kdriver, ctx, devices, device, handle, interface_number,
                  detached_kernel, claimed, config, rc, exit_code, trigger_rc >>

\* the kernel driver binding after libusb_attach_kernel_driver (result discarded by
\* the program) was called iff do_attach and succeeded iff ok
AttachKernelDriver(k, d, do_attach, ok) ==
  IF do_attach /\ ok THEN [ k EXCEPT ![d] = TRUE ] ELSE k

AttachCall(do_attach, ok) ==
  IF do_attach THEN << Call("libusb_attach_kernel_driver", ok) >> ELSE << >>

\* a fail: block without the reattach
kvm_device_fail_no_reattach ==
  /\ pc = "fail"
  /\ calls' = calls \o (IF handle # "null" THEN << Call("libusb_close", TRUE) >>
                        ELSE << >>)
                    \o << Call("libusb_unref_device", TRUE) >>
  /\ handle' = IF handle # "null" THEN "closed" ELSE handle
  /\ claimed' = IF handle # "null" THEN FALSE ELSE claimed
  /\ refs' = UnrefDevice(refs, device)
  /\ pc' = "catch"
  /\ UNCHANGED << bus, kdriver, ctx, devices, device, interface_number, detached_kernel,
                  config, kvm, rc, exit_code, trigger_rc, requests >>

\* kvm_device::kvm_device, label fail: reattach if detached_kernel, close the handle
\* if there is one, unref the device, throw rc
kvm_device_fail ==
  /\ pc = "fail"
  /\ \E ok \in BOOLEAN :
       /\ kdriver' = AttachKernelDriver(kdriver, device, detached_kernel, ok)
       /\ calls' = calls \o AttachCall(detached_kernel, ok)
                         \o (IF handle # "null" THEN << Call("libusb_close", TRUE) >>
                             ELSE << >>)
                         \o << Call("libusb_unref_device", TRUE) >>
  /\ handle' = IF handle # "null" THEN "closed" ELSE handle
  /\ claimed' = IF handle # "null" THEN FALSE ELSE claimed
  /\ refs' = UnrefDevice(refs, device)
  /\ pc' = "catch"
  /\ UNCHANGED << bus, ctx, devices, device, interface_number, detached_kernel, config,
                  kvm, rc, exit_code, trigger_rc, requests >>

\* a trigger() that closes the handle when its request fails
main_trigger_teardown ==
  /\ pc = "trigger"
  /\ \E r \in TransferResults :
       /\ calls' = calls \o << Call("libusb_control_transfer", r >= 0) >>
                         \o (IF send_request(r, Len(trigger_data)) # 0
                             THEN << Call("libusb_close", TRUE) >> ELSE << >>)
       /\ requests' = Append(requests, Request(trigger_data, r))
       /\ trigger_rc' = Append(trigger_rc, send_request(r, Len(trigger_data)))
       /\ handle' = IF send_request(r, Len(trigger_data)) # 0 THEN "closed" ELSE handle
       /\ claimed' = IF send_request(r, Len(trigger_data)) # 0 THEN FALSE ELSE claimed
  /\ pc' = "destroy"
  /\ UNCHANGED << bus, refs, kdriver, ctx, devices, device, interface_number,
                  detached_kernel, config, kvm, rc, exit_code >>

\* main: kvm->trigger(); the value it returns is not used
main_trigger ==
  /\ pc = "trigger"
  /\ \E r \in TransferResults :
       /\ calls' = Append(calls, Call("libusb_control_transfer", r >= 0))
       /\ requests' = Append(requests, Request(trigger_data, r))
       /\ trigger_rc' = Append(trigger_rc, send_request(r, Len(trigger_data)))
  /\ pc' = "destroy"
  /\ UNCHANGED << bus, refs, kdriver, ctx, devices, device, handle, interface_number,
                  detached_kernel, claimed, config, kvm, rc, exit_code >>

\* a destructor that closes the handle before it reattaches the kernel driver
kvm_device_dtor_close_first ==
  /\ pc = "destroy"
  /\ \E ok \in BOOLEAN :
       /\ kdriver' = AttachKernelDriver(kdriver, device, detached_kernel, ok)
       /\ calls' = calls \o << Call("libusb_close", TRUE) >>
                         \o AttachCall(detached_kernel, ok)
                         \o << Call("libusb_unref_device", TRUE) >>
  /\ handle' = "closed"
  /\ claimed' = FALSE
  /\ refs' = UnrefDevice(refs, device)
  /\ kvm' = "destroyed"
  /\ pc' = "exit"
  /\ UNCHANGED << bus, ctx, devices, device, interface_number, detached_kernel, config,
                  rc, exit_code, trigger_rc, requests >>

\* a destructor that releases the interface before it reattaches the kernel driver
kvm_device_dtor_releases ==
  /\ pc = "destroy"
  /\ \E ok \in BOOLEAN :
       /\ kdriver' = AttachKernelDriver(kdriver, device, detached_kernel, ok)
       /\ calls' = calls \o << Call("libusb_release_interface", TRUE) >>
                         \o AttachCall(detached_kernel, ok)
                         \o << Call("libusb_close", TRUE), Call("libusb_unref_device", TRUE) >>
  /\ handle' = "closed"
  /\ claimed' = FALSE
  /\ refs' = UnrefDevice(refs, device)
  /\ kvm' = "destroyed"
  /\ pc' = "exit"
  /\ UNCHANGED << bus, ctx, devices, device, interface_number, detached_kernel, config,
                  rc, exit_code, trigger_rc, requests >>

\* kvm_device::~kvm_device, run when kvm goes out of scope at the end of the try block
kvm_device_dtor ==
  /\ pc = "destroy"
  /\ \E ok \in BOOLEAN :
       /\ kdriver' = AttachKernelDriver(kdriver, device, detached_kernel, ok)
       /\ calls' = calls \o AttachCall(detached_kernel, ok)
                         \o << Call("libusb_close", TRUE), Call("libusb_unref_device", TRUE) >>
  /\ handle' = "closed"
  /\ claimed' = FALSE
  /\ refs' = UnrefDevice(refs, device)
  /\ kvm' = "destroyed"
  /\ pc' = "exit"
  /\ UNCHANGED << bus, ctx, devices, device, interface_number, detached_kernel, config,
                  rc, exit_code, trigger_rc, requests >>

\* main without the rc = 1 of the else branch
main_else_keeps_rc ==
  /\ pc = "else"
  /\ pc' = "exit"
  /\ UNCHANGED << bus, refs, kdriver, ctx, devices, device, handle, interface_number,
                  detached_kernel, claimed, config, kvm, rc, exit_code, trigger_rc,
                  requests, calls >>

\* main: find_device returned nullptr
main_else ==
  /\ pc = "else"
  /\ rc' = 1
  /\ pc' = "exit"
  /\ UNCHANGED << bus, refs, kdriver, ctx, devices, device, handle, interface_number,
                  detached_kernel, claimed, config, kvm, exit_code, trigger_rc,
                  requests, calls >>

\* main: catch (int libusb_error)
main_catch ==
  /\ pc = "catch"
  /\ rc' = 1
  /\ pc' = "exit"
  /\ UNCHANGED << bus, refs, kdriver, ctx, devices, device, handle, interface_number,
                  detached_kernel, claimed, config, kvm, exit_code, trigger_rc,
                  requests, calls >>

\* a main that may call libusb_exit inside the try block, while kvm is in scope
main_exit_early ==
  \/ /\ pc = "destroy"
     /\ ctx = "live"
     /\ ctx' = "exited"
     /\ calls' = Append(calls, Call("libusb_exit", TRUE))
     /\ UNCHANGED << pc, bus, refs, kdriver, devices, device, handle, interface_number,
                     detached_kernel, claimed, config, kvm, rc, exit_code, trigger_rc,
                     requests >>
  \/ /\ pc = "exit"
     /\ IF ctx = "live"
        THEN /\ ctx' = "exited"
             /\ calls' = Append(calls, Call("libusb_exit", TRUE))
        ELSE UNCHANGED << ctx, calls >>
     /\ exit_code' = rc
     /\ pc' = "done"
     /\ UNCHANGED << bus, refs, kdriver, devices, device, handle, interface_number,
                     detached_kernel, claimed, config, kvm, rc, trigger_rc, requests >>

\* main: libusb_exit(ctx) if there is a context, return rc
main_exit ==
  /\ pc = "exit"
  /\ IF ctx = "live"
     THEN /\ ctx' = "exited"
          /\ calls' = Append(calls, Call("libusb_exit", TRUE))
     ELSE UNCHANGED << ctx, calls >>
  /\ exit_code' = rc
  /\ pc' = "done"
  /\ UNCHANGED << bus, refs, kdriver, devices, device, handle, interface_number,
                  detached_kernel, claimed, config, kvm, rc, trigger_rc, requests >>

Next ==
  \/ main_init
  \/ main_find_devices
  \/ find_device_select
  \/ find_device_config
  \/ kvm_device_open
  \/ kvm_device_kernel_driver_active
  \/ kvm_device_detach
  \/ kvm_device_claim
  \/ kvm_device_initialize
  \/ kvm_device_fail
  \/ main_trigger
  \/ kvm_device_dtor
  \/ main_else
  \/ main_catch
  \/ main_exit

Spec == Init /\ [][Next]_vars

----------------------------------------------------------------------------
(* Properties *)

Opens == CountCalls(calls, "libusb_open", TRUE)
Closes == Invoked("libusb_close")
Unrefs == Invoked("libusb_unref_device")
Detaches == CountCalls(calls, "libusb_detach_kernel_driver", TRUE)
Attaches == Invoked("libusb_attach_kernel_driver")
Transfers == Invoked("libusb_control_transfer")

\* the constructor of kvm_device was entered and its failure has reached main's handler
ConstructorFailed == pc = "catch" /\ Invoked("libusb_open") = 1

\* the last send_request made was initialize()'s and it failed
InitializeFailed ==
  /\ Len(requests) = 1
  /\ requests[1].data = initialize_data
  /\ requests[1].result < 0

\* none of open, driver query, detach, claim, control transfer was invoked
DeviceUntouched ==
  /\ Invoked("libusb_open") = 0
  /\ Invoked("libusb_kernel_driver_active") = 0
  /\ Invoked("libusb_detach_kernel_driver") = 0
  /\ Invoked("libusb_claim_interface") = 0
  /\ Transfers = 0

\* find_device has returned nullptr, or is about to
NoSession == kvm = "null" /\ pc \in { "find_device", "config", "else", "exit", "done" }

\* C1: whichever step of the constructor fails, once the failure has left the
\* constructor the device reference was released once, the handle was closed as
\* often as it was opened, and the kernel driver was reattached as often as it
\* was detached.
C1_ResourceSymmetry ==
  ConstructorFailed =>
    /\ Unrefs = 1
    /\ refs[device] = 0
    /\ Closes = Opens
    /\ Attaches = Detaches

\* C2: when the initialization transfer fails, the failure reaches main only
\* after the kernel driver was reattached (if it had been detached), the handle
\* was closed and the device reference was released.
C2_InitializeFailureCleansUp ==
  (ConstructorFailed /\ InitializeFailed) =>
    /\ detached_kernel => Attaches = 1
    /\ handle = "closed"
    /\ Unrefs = 1
    /\ refs[device] = 0

\* C3: when main has returned, every device reference find_devices handed to
\* find_device has been released exactly once.
C3_ReferencesReleased ==
  pc = "done" =>
    /\ \A i \in DOMAIN refs : refs[i] = 0
    /\ Unrefs = Len(devices)

\* C4: after a session was acquired and destroyed, the kernel driver is bound to
\* the device iff it was bound before acquisition, the handle is closed and the
\* reference count is what it was before acquisition.
C4_DestructionRestoresDevice ==
  kvm = "destroyed" =>
    /\ kdriver[device] = bus[device].driver
    /\ handle = "closed"
    /\ refs[device] = 0

\* C5: when find_devices returned two or more devices, find_device returns no
\* session and no device is opened, queried, detached, claimed or sent a transfer.
C5_AmbiguityRefusal ==
  Len(devices) >= 2 => (NoSession /\ DeviceUntouched /\ pc # "config")

C5_Witness == Len(devices) >= 2 /\ pc = "done" /\ exit_code = 1

\* C6: when the active configuration has not exactly 2 interfaces, or its
\* interface 1 has not exactly 1 alternate setting, find_device returns no session
\* and the device is never opened, queried, detached, claimed or sent a transfer.
C6_TopologyGate ==
  (config.state # "none"
     /\ (config.bNumInterfaces # 2 \/ config.num_altsetting # 1)) =>
    (NoSession /\ DeviceUntouched /\ pc # "config")

C6_Witness ==
  /\ config.state # "none"
  /\ config.bNumInterfaces = 2
  /\ config.num_altsetting = 2
  /\ pc = "done"

\* C7: every send_request returned 0 iff the transfer reported exactly the
\* payload's length; for the 5-byte payloads a reported 4, 6 or negative value
\* gave a non-zero result.
C7_TransferExactness ==
  \A k \in DOMAIN requests :
    /\ requests[k].result = 0 <=> requests[k].reported = Len(requests[k].data)
    /\ Len(requests[k].data) = 5
    /\ (requests[k].reported \in { 4, 6 } \/ requests[k].reported < 0)
         => requests[k].result # 0

C7_Witness ==
  /\ Len(requests) = 2
  /\ requests[1].reported = 5 /\ requests[1].result = 0
  /\ requests[2].reported = 6 /\ requests[2].result # 0

\* C8: a trigger() whose transfer does not report the payload's length returns
\* non-zero and leaves the session as it was: handle open, interface claimed,
\* flag, interface number, device and references unchanged, no reattach, close
\* or unref performed, so that trigger() could be called on it again.
C8_FailingTriggerFrame ==
  [][ (pc = "trigger" /\ pc' # "trigger"
         /\ requests'[Len(requests')].reported # Len(trigger_data)) =>
        /\ Len(trigger_rc') = Len(trigger_rc) + 1
        /\ trigger_rc'[Len(trigger_rc')] # 0
        /\ kvm' = "live" /\ kvm = "live"
        /\ handle' = "open" /\ handle = "open"
        /\ claimed' /\ claimed
        /\ detached_kernel' = detached_kernel
        /\ interface_number' = interface_number
        /\ device' = device
        /\ refs' = refs
        /\ kdriver' = kdriver
        /\ calls' = Append(calls, Call("libusb_control_transfer",
                                       requests'[Len(requests')].reported >= 0)) ]_vars

C8_Witness ==
  /\ pc = "destroy"
  /\ Len(trigger_rc) = 1
  /\ trigger_rc[1] # 0
  /\ kvm = "live"
  /\ handle = "open"
  /\ claimed

\* C9: main returns 0 only when a session was acquired and trigger() returned 0.
C9_ExitZeroOnlyOnSuccess ==
  (pc = "done" /\ exit_code = 0) => (kvm # "null" /\ trigger_rc = << 0 >>)

\* C10: when libusb_init succeeded and no session was acquired, main returns 1.
C10_NoSessionExitsOne ==
  (pc = "done" /\ CountCalls(calls, "libusb_init", TRUE) = 1 /\ kvm = "null")
    => exit_code = 1

C10_Witness ==
  /\ pc = "done"
  /\ ctx = "exited"
  /\ kvm = "null"
  /\ Len(devices) = 0
  /\ CountCalls(calls, "libusb_get_device_list", TRUE) = 1
  /\ exit_code = 1

\* position in calls of the (first) call of op, 0 when there is none
IndexOf(op) ==
  IF \E k \in DOMAIN calls : calls[k].op = op
  THEN CHOOSE k \in DOMAIN calls :
         calls[k].op = op /\ \A j \in 1..(k - 1) : calls[j].op # op
  ELSE 0

\* position in calls of the last call of op, 0 when there is none
LastIndexOf(op) ==
  IF \E k \in DOMAIN calls : calls[k].op = op
  THEN CHOOSE k \in DOMAIN calls :
         calls[k].op = op /\ \A j \in (k + 1)..Len(calls) : calls[j].op # op
  ELSE 0

OpAt(k) == IF k \in DOMAIN calls THEN calls[k].op ELSE "none"

CallAt(k) == IF k \in DOMAIN calls THEN calls[k] ELSE Call("none", FALSE)

\* device i carries the KVM's identifiers
IsKvm(i) == bus[i].idVendor = vendor_id /\ bus[i].idProduct = product_id

\* C11: when libusb_claim_interface fails, then by the time the failure has left
\* the constructor: if the driver had been detached, reattach was invoked exactly
\* once, followed by the close of the handle and the release of the reference;
\* if no driver had been detached, reattach was not invoked; no handle is open.
C11_ClaimFailureRollback ==
  (CountCalls(calls, "libusb_claim_interface", FALSE) = 1 /\ pc # "fail") =>
    LET p == IndexOf("libusb_claim_interface") IN
    /\ handle = "closed"
    /\ refs[device] = 0
    /\ Closes = 1
    /\ Unrefs = 1
    /\ IF Detaches = 1
       THEN /\ Attaches = 1
            /\ OpAt(p + 1) = "libusb_attach_kernel_driver"
            /\ OpAt(p + 2) = "libusb_close"
            /\ OpAt(p + 3) = "libusb_unref_device"
       ELSE /\ Attaches = 0
            /\ OpAt(p + 1) = "libusb_close"
            /\ OpAt(p + 2) = "libusb_unref_device"

C11_Witness ==
  /\ pc = "catch"
  /\ CountCalls(calls, "libusb_claim_interface", FALSE) = 1
  /\ Detaches = 1
  /\ Attaches = 1
  /\ handle = "closed"

\* C12: detached_kernel is true iff the driver query succeeded and reported a
\* bound driver and the detach that followed succeeded.
C12_DetachedFlag ==
  detached_kernel <=>
    /\ device # 0
    /\ CountCalls(calls, "libusb_kernel_driver_active", TRUE) = 1
    /\ bus[device].driver
    /\ Detaches = 1

C12_Witness ==
  /\ detached_kernel
  /\ kvm = "live"
  /\ pc = "destroy"

\* a state where the flag stays false although a driver was bound: detach failed
C12_WitnessDetachFailed ==
  /\ ~ detached_kernel
  /\ CountCalls(calls, "libusb_detach_kernel_driver", FALSE) = 1

\* C13: while a session returned by find_device is live, the handle is open and
\* the interface is claimed.
C13_LiveSessionOpenAndClaimed ==
  kvm = "live" => (handle = "open" /\ claimed)

C13_Witness ==
  /\ kvm = "live"
  /\ pc = "trigger"
  /\ handle = "open"
  /\ claimed

\* C14: every libusb call follows a successful libusb_init, and libusb_exit is
\* called only when no session is live.
C14_ContextBracketsSession ==
  /\ Len(calls) >= 1 => calls[1].op = "libusb_init"
  /\ Len(calls) >= 2 => calls[1] = Call("libusb_init", TRUE)
  /\ Len(calls) >= 2 => ctx # "null"
  /\ kvm = "live" => (ctx = "live" /\ Invoked("libusb_exit") = 0)
  /\ Invoked("libusb_exit") > 0 =>
       /\ LastIndexOf("libusb_exit") = Len(calls)
       /\ kvm \in { "null", "destroyed" }

C14_Witness ==
  /\ ctx = "exited"
  /\ kvm = "destroyed"
  /\ OpAt(Len(calls)) = "libusb_exit"

\* the order of the calls of an acquisition, read off the call history
C15_Order ==
  /\ \A k \in DOMAIN calls :
       /\ calls[k].op = "libusb_open" =>
            CallAt(k - 1) = Call("libusb_free_config_descriptor", TRUE)
       /\ calls[k].op = "libusb_kernel_driver_active" =>
            CallAt(k - 1) = Call("libusb_open", TRUE)
       /\ calls[k].op = "libusb_detach_kernel_driver" =>
            (CallAt(k - 1) = Call("libusb_kernel_driver_active", TRUE)
               /\ bus[device].driver)
       /\ calls[k].op = "libusb_claim_interface" =>
            \/ CallAt(k - 1) = Call("libusb_detach_kernel_driver", TRUE)
            \/ (CallAt(k - 1) = Call("libusb_kernel_driver_active", TRUE)
                  /\ ~ bus[device].driver)
       /\ calls[k].op = "libusb_control_transfer" =>
            \/ CallAt(k - 1) = Call("libusb_claim_interface", TRUE)
            \/ (OpAt(k - 1) = "libusb_control_transfer" /\ requests[1].result = 0)
  /\ Transfers = Len(requests)
  /\ \A k \in DOMAIN requests :
       /\ requests[k].data = initialize_data <=> k = 1
       /\ requests[k].data = trigger_data <=> k > 1
       /\ k > 1 => requests[1].result = 0
  /\ kvm # "null" => (Len(requests) >= 1 /\ requests[1].result = 0)

\* C15: open, driver query, detach (only for a bound driver), claim and the
\* initialization transfer run in this order, each only after the previous one
\* succeeded; a control transfer is issued only with the handle open and the
\* interface claimed; the initialization payload is sent once per acquisition
\* and no trigger payload precedes it.
C15_AcquisitionOrder ==
  /\ [] C15_Order
  /\ [][ Len(requests') > Len(requests) =>
           (handle = "open" /\ claimed /\ handle' = "open" /\ claimed') ]_vars

C15_Witness ==
  /\ Len(requests) = 2
  /\ requests[1].data = initialize_data
  /\ requests[2].data = trigger_data
  /\ Detaches = 1

\* C16: a destroyed session was constructed successfully, and its destruction
\* made, in this order: one reattach iff detached_kernel, one close, one unref;
\* no close, unref or reattach happens twice, and nothing is destroyed after a
\* failed construction.
C16_DestructionOrder ==
  /\ Closes <= 1 /\ Unrefs <= 1 /\ Attaches <= 1
  /\ kvm = "destroyed" =>
       LET n == LastIndexOf("libusb_unref_device") IN
       /\ Len(requests) = 2
       /\ requests[1].result = 0
       /\ Closes = 1 /\ Unrefs = 1
       /\ OpAt(n - 1) = "libusb_close"
       /\ IF detached_kernel
          THEN /\ Attaches = 1
               /\ OpAt(n - 2) = "libusb_attach_kernel_driver"
               /\ OpAt(n - 3) = "libusb_control_transfer"
          ELSE /\ Attaches = 0
               /\ OpAt(n - 2) = "libusb_control_transfer"
  /\ (Len(requests) >= 1 /\ requests[1].result # 0) =>
       (kvm = "null" /\ Closes = 0 /\ pc \notin { "trigger", "destroy" })
  /\ (Invoked("libusb_open") = 1 /\ kvm = "null" /\ pc \in { "catch", "exit", "done" }) =>
       Len(trigger_rc) = 0

C16_Witness ==
  /\ kvm = "destroyed"
  /\ detached_kernel
  /\ pc = "done"
  /\ Attaches = 1

\* C17: right after a successful find_devices the result is the matching devices
\* in enumeration order, each holding one more reference than before, and every
\* other device has its reference count of before the enumeration; devices that
\* do not match keep it from then on.
C17_FindDevicesResult ==
  /\ pc = "find_device" =>
       /\ \A j, k \in DOMAIN devices : j < k => devices[j] < devices[k]
       /\ { devices[k] : k \in DOMAIN devices } = { i \in DOMAIN bus : IsKvm(i) }
       /\ \A i \in DOMAIN bus : refs[i] = IF IsKvm(i) THEN 1 ELSE 0
       /\ Invoked("libusb_free_device_list") = 1
       /\ Invoked("libusb_ref_device") = Len(devices)
  /\ \A i \in DOMAIN bus : ~ IsKvm(i) => refs[i] = 0

C17_Witness ==
  /\ pc = "find_device"
  /\ Len(bus) = 3
  /\ Len(devices) = 2
  /\ ~ IsKvm(2)

\* C18: after libusb_get_device_list reported a negative count no reference was
\* taken and no result returned, the exception is taken by main's handler, and
\* main returns 1 after libusb_exit.
C18_EnumerationFailureHandled ==
  CountCalls(calls, "libusb_get_device_list", FALSE) = 1 =>
    /\ devices = << >>
    /\ \A i \in DOMAIN refs : refs[i] = 0
    /\ pc \in { "catch", "exit", "done" }
    /\ pc = "done" => (exit_code = 1 /\ ctx = "exited")

\* C19: the interface is never released explicitly, so the destructor's
\* reattach is invoked with the interface still claimed through the open handle.
C19_ReattachWhileClaimed ==
  /\ [] (Invoked("libusb_release_interface") = 0)
  /\ [][ (pc = "destroy" /\ pc' # "destroy" /\ detached_kernel) =>
           /\ claimed
           /\ handle = "open"
           /\ Len(calls') > Len(calls)
           /\ calls'[Len(calls) + 1].op = "libusb_attach_kernel_driver" ]_vars

C19_Witness ==
  /\ pc = "exit"
  /\ kvm = "destroyed"
  /\ Attaches = 1
  /\ CountCalls(calls, "libusb_claim_interface", TRUE) = 1

\* C20: once find_device is past the configuration descriptor, every descriptor
\* it obtained has been freed exactly once.
C20_ConfigDescriptorFreed ==
  pc \notin { "main", "find_devices", "find_device", "config" } =>
    /\ config.state # "held"
    /\ Invoked("libusb_free_config_descriptor")
         = CountCalls(calls, "libusb_get_active_config_descriptor", TRUE)
====
